---- MODULE Spec2Model ----
(***************************************************************************)
(* A model of evolution.py: the entropy bit pool (BitPool, RandomBitPool), *)
(* the self-tuning magnitude generator and the mutation engine             *)
(* (RandomEvolver), the oracle (DelegatingExitCodeTest) and the Driver     *)
(* loop.                                                                   *)
(***************************************************************************)
EXTENDS Integers, Sequences, FiniteSets, TLC

\* --------------------------------------------------------------- bounds
\* Largest n of one drain call explored on the pool alone.
MaxDrain == 10
\* Generations the Driver may apply.
MaxGen == 2
\* Largest artifact size (bytes) a resize may reach.
MaxSize == 3
\* Largest random_whole_bit_count a draw may reach.
MaxWidth == 4

\* ------------------------------------------------------ bit arithmetic
Bit == {0, 1}
Byte == 0..255

\* a >> n
ShiftR(a, n) == a \div (2 ^ n)

\* a & b, a | b, a ^ b on naturals, bit by bit
RECURSIVE BitAnd(_, _)
BitAnd(a, b) ==
  IF a = 0 \/ b = 0 THEN 0
  ELSE 2 * BitAnd(a \div 2, b \div 2) + (IF a % 2 = 1 /\ b % 2 = 1 THEN 1 ELSE 0)

RECURSIVE BitOr(_, _)
BitOr(a, b) ==
  IF a = 0 THEN b ELSE IF b = 0 THEN a
  ELSE 2 * BitOr(a \div 2, b \div 2) + (IF a % 2 = 1 \/ b % 2 = 1 THEN 1 ELSE 0)

RECURSIVE BitXor(_, _)
BitXor(a, b) ==
  IF a = 0 THEN b ELSE IF b = 0 THEN a
  ELSE 2 * BitXor(a \div 2, b \div 2) + (IF a % 2 # b % 2 THEN 1 ELSE 0)

\* ------------------------------------------------- module-level helpers
\* The bits needed to store the values below n
BitCountBelow(n) == Cardinality({k \in 0..15 : 2 ^ k < n})

\* get_bit_count(n): while n: bit_count += 1; n >>= 1
RECURSIVE get_bit_count(_)
get_bit_count(n) == IF n = 0 THEN 0 ELSE 1 + get_bit_count(ShiftR(n, 1))

\* The loop of get_bits: while n: yield (byte & i) >> n; i >>= 1; n -= 1
RECURSIVE get_bits_loop(_, _, _)
get_bits_loop(byte, i, n) ==
  IF n = 0 THEN << >>
  ELSE << ShiftR(BitAnd(byte, i), n) >> \o get_bits_loop(byte, ShiftR(i, 1), n - 1)

\* get_bits(byte, n = 8): i = 1 << n, then the loop
get_bits(byte, n) == get_bits_loop(byte, 2 ^ n, n)

\* get_whole(*bits): n <<= 1; n |= bit, for each bit in order
RECURSIVE get_whole_loop(_, _)
get_whole_loop(n, bits) ==
  IF bits = << >> THEN n
  ELSE get_whole_loop(BitOr(2 * n, Head(bits)), Tail(bits))

get_whole(bits) == get_whole_loop(0, bits)

\* ------------------------------------------------------------- BitPool
\* BitPool.drain(n): up to n bits from the head of the queue
BitPoolDrain(p, n) ==
  LET k == IF n < Len(p) THEN n ELSE Len(p)
  IN  [out |-> SubSeq(p, 1, k), pool |-> SubSeq(p, k + 1, Len(p))]

\* BitPool.fill(*bits): put each bit at the tail of the queue
fill(p, bits) == p \o bits

\* The refill of RandomBitPool.drain: fill(*get_bits(ord(read_entropy(1))))
Refill(p, byte) == fill(p, get_bits(byte, 8))

\* A drain that stops at an empty pool, as BitPool.drain alone does
DrainStopsAtEmpty(p, ent, n) ==
  LET d == BitPoolDrain(p, n)
  IN  [out |-> d.out, pool |-> d.pool, ent |-> ent, ok |-> TRUE]

\* RandomBitPool.drain(n). ent is the bytes read_entropy will return, in
\* order; ok is FALSE when the drain would need more bytes than ent holds.
RECURSIVE RandomDrain(_, _, _)
RandomDrain(p, ent, n) ==
  IF n = 0 THEN [out |-> << >>, pool |-> p, ent |-> ent, ok |-> TRUE]
  ELSE LET d == BitPoolDrain(p, n)
       IN  IF d.out = << >>
           THEN IF ent = << >>
                THEN [out |-> << >>, pool |-> p, ent |-> ent, ok |-> FALSE]
                ELSE RandomDrain(Refill(d.pool, Head(ent)), Tail(ent), n)
           ELSE LET r == RandomDrain(d.pool, ent, n - Len(d.out))
                IN  [out |-> d.out \o r.out, pool |-> r.pool,
                     ent |-> r.ent, ok |-> r.ok]

\* ------------------------------------------------- magnitude generator
\* The integers at which math.ceil(math.log(n, math.e ** math.e)) steps up:
\* it is 0 up to 1, 1 up to 15, 2 up to 229, 3 up to 3480, 4 up to 52739.
SevereLogSteps == << 1, 15, 229, 3480, 52739 >>

\* math.ceil(self._severe_log(n)); _severe_log returns 0 on ValueError (n <= 0)
CeilSevereLog(n) ==
  IF n <= 0 THEN 0
  ELSE Cardinality({k \in 1..Len(SevereLogSteps) : n > SevereLogSteps[k]})

\* _raw_random_whole(bit_count): get_whole(*drain(bit_count))
raw_random_whole(p, ent, bit_count) ==
  LET Whole(d) == [n |-> get_whole(d.out), bits |-> d.out, pool |-> d.pool,
                   ent |-> d.ent, ok |-> d.ok]
  IN  Whole(RandomDrain(p, ent, bit_count))

\* The bit count left as the step made it
NoClamp(w) == w

\* if self.random_whole_bit_count <= 0: self.random_whole_bit_count = 1
ClampWidth(w) == IF w <= 0 THEN 1 ELSE w

\* _random_whole(): the raw value n (r), then, when the bit count is
\* randomized, a second raw value (o) made the offset, a sign bit (s), and
\* the bit count moved by the signed offset and clamped
random_whole(p, ent, w, randomize) ==
  LET Adapt(r, o, s) ==
        LET off  == IF w >= 2 THEN CeilSevereLog(o.n) ELSE o.n
            neg  == s.ok /\ s.out # << >> /\ s.out[1] # 0
            step == IF neg THEN -off ELSE off
        IN  [n |-> r.n, width |-> ClampWidth(w + step),
             pool |-> s.pool, ent |-> s.ent, ok |-> r.ok /\ o.ok /\ s.ok,
             sign |-> IF neg THEN 1 ELSE 0, step |-> step,
             clamped |-> (w + step <= 0)]
      Offset(r, o) == Adapt(r, o, RandomDrain(o.pool, o.ent, 1))
      Raw(r) ==
        IF ~randomize
        THEN [n |-> r.n, width |-> w, pool |-> r.pool, ent |-> r.ent,
              ok |-> r.ok, sign |-> 0, step |-> 0, clamped |-> FALSE]
        ELSE Offset(r, raw_random_whole(r.pool, r.ent, w))
  IN  Raw(raw_random_whole(p, ent, w))

\* if self.random_whole_bit_count >= 2: n = math.ceil(self._severe_log(n))
\* (w is the bit count as _random_whole has left it)
Normalize(n, w) == IF w >= 2 THEN CeilSevereLog(n) ELSE n

\* _normal_random_whole()
normal_random_whole(p, ent, w, randomize) ==
  LET Normal(r) == [n |-> Normalize(r.n, r.width), raw |-> r.n,
                    width |-> r.width, pool |-> r.pool, ent |-> r.ent,
                    ok |-> r.ok, sign |-> r.sign, step |-> r.step,
                    clamped |-> r.clamped]
  IN  Normal(random_whole(p, ent, w, randomize))

\* -------------------------------------------------------- artifact file
\* A write that goes to the end of the file wherever the position is
AppendAlways(content, pos, b) == Append(content, b)

\* fp.write(b) of one byte at position pos (0-based) of the file object's view
WriteAt(content, pos, b) ==
  IF pos < Len(content) THEN [content EXCEPT ![pos + 1] = b]
  ELSE Append(content, b)

\* fp.truncate(target): cut, or extend with zero bytes
Truncate(content, target) ==
  IF target <= Len(content) THEN SubSeq(content, 1, target)
  ELSE content \o [k \in 1..(target - Len(content)) |-> 0]

\* The size taken as 0, without looking at the file
SizeUnmeasured(content) == 0

\* fp.seek(0, os.SEEK_END); size = fp.tell(): the size taken at open
SizeAtOpen(content) == Len(content)

\* A sync that makes nothing durable
NoSync(kernel, durable) == durable

\* os.fdatasync(fp.fileno()): what the kernel holds becomes durable
fdatasync(kernel, durable) == kernel

\* The position fp.seek(0, os.SEEK_SET) has left after the size was taken
SeekStart(content) == 0

\* fp.seek(0, os.SEEK_END) before growing: the position to append at
SeekEnd(content) == Len(content)

\* A grow that writes nothing
NoGrow(content, pos, p, ent, target) ==
  [content |-> content, pool |-> p, ent |-> ent, ok |-> TRUE]

\* while fp.tell() < target: fp.write(get_byte(get_whole(*drain(7))))
RECURSIVE GrowLoop(_, _, _, _, _)
GrowLoop(content, pos, p, ent, target) ==
  LET Write(d) ==
        IF ~d.ok
        THEN [content |-> content, pool |-> d.pool, ent |-> d.ent, ok |-> FALSE]
        ELSE GrowLoop(WriteAt(content, pos, get_whole(d.out)), pos + 1,
                      d.pool, d.ent, target)
  IN  IF pos >= target
      THEN [content |-> content, pool |-> p, ent |-> ent, ok |-> TRUE]
      ELSE Write(RandomDrain(p, ent, 7))

\* target = size + n; target = target if target >= 0 else 0
ResizeTarget(sz, n) == IF sz + n >= 0 THEN sz + n ELSE 0

\* The bit index taken for the mask
UnshiftedMask(biti) == biti

\* The mask of a flip: 1 << biti
FlipMask(biti) == 2 ^ biti

\* The byte with the bit set rather than toggled
OrByte(b, biti) == BitOr(b, FlipMask(biti))

\* byten = ord(fp.read(1)) ^ (1 << biti)
FlipByte(b, biti) == BitXor(b, FlipMask(biti))

\* The indices 0 ... n
RangeInclusive(n) == 0..n

\* range(n)
range(n) == 0..(n - 1)

\* The raw value taken as the offset as it is
OffsetUnreduced(raw, sz) == raw

\* fulli = self._raw_random_whole(bit_count) % (size * 8)
FlipOffset(raw, sz) == raw % (sz * 8)

\* fp.seek(bytei, os.SEEK_SET); fp.read(1): the byte at bytei, or nothing at
\* or past the end of the file
ReadAt(content, bytei) ==
  IF bytei < Len(content) THEN << content[bytei + 1] >> ELSE << >>

\* One flip at bit offset fulli of the file object's view: seek, read,
\* seek, write
FlipAt(content, fulli) ==
  LET bytei == fulli \div 8
      biti  == fulli % 8
  IN  WriteAt(content, bytei, FlipByte(content[bytei + 1], biti))

\* --------------------------------------------------------------- oracle
\* What the validator process does: it cannot be launched, it exits with a
\* code, or it does not exit within the timeout (ever, without a timeout).
Outcomes == {"launch_error", "exit", "overrun"}
ExitCodes == {0, 1}

\* The exit code the test may be constructed to expect (code = 0)
ExpectedCodes == {0}

\* DelegatingExitCodeTest.__call__ without the try/except around Popen
TestCallUnguarded(outcome, c, expected, hasTimeout) ==
  CASE outcome = "launch_error" -> "raise"
    [] outcome = "exit" -> IF c = expected THEN "True" ELSE "False"
    [] outcome = "overrun" -> IF hasTimeout THEN "raise" ELSE "block"

\* DelegatingExitCodeTest.__call__: "True", "False", "raise" (an exception
\* leaves the call) or "block" (child.wait(None) never returns)
TestCall(outcome, c, expected, hasTimeout) ==
  CASE outcome = "launch_error" -> "False"
    [] outcome = "exit" -> IF c = expected THEN "True" ELSE "False"
    [] outcome = "overrun" -> IF hasTimeout THEN "raise" ELSE "block"

\* A Driver that evolves whatever the test returned
AlwaysEvolve(result) ==
  CASE result = "True" -> "open"
    [] result = "False" -> "open"
    [] result = "raise" -> "crashed"
    [] result = "block" -> "blocked"

\* A Driver that stops at the first result, whatever it is
StopOnAnyResult(result) ==
  CASE result = "True" -> "done"
    [] result = "False" -> "done"
    [] result = "raise" -> "crashed"
    [] result = "block" -> "blocked"

\* Driver.__call__: while not self.test(): ... self.evolve()
DriverAfterTest(result) ==
  CASE result = "True" -> "done"
    [] result = "False" -> "open"
    [] result = "raise" -> "crashed"
    [] result = "block" -> "blocked"

\* ---------------------------------------------------------------- state
VARIABLES
  \* RandomEvolver and DelegatingExitCodeTest configuration
  growth, randomize_random_whole_bit_count, generational_flips, code, hasTimeout,
  \* Driver: position, generations applied, evaluations made, the last
  \* evaluation's outcome and result
  pc, gen, evals, lastOutcome, lastResult,
  \* RandomEvolver: the bit count, the bit pool, and __call__'s locals
  random_whole_bit_count, pool, size, flipi,
  \* the file object: open or not, and its view of the content (the kernel's
  \* content overlaid with the writes still in its buffer)
  fpopen, fpview,
  \* the artifact: whether the path exists, the content the kernel holds,
  \* the content os.fdatasync has last made durable
  exists, file, disk,
  \* history: the artifact at construction, the content at open, whether
  \* this generation resized and to what, its magnitude draw, the content
  \* before the first flip, the flip offsets so far, the last drain call,
  \* the bits each flip drained for its offset, the bytes the grow loop wrote
  initial, pre, resized, target, draw, preFlip, offs, lastDrain, drawn, grown

cfgVars  == << growth, randomize_random_whole_bit_count, generational_flips,
               code, hasTimeout >>
drvVars  == << pc, gen, evals, lastOutcome, lastResult >>
evoVars  == << random_whole_bit_count, pool, size, flipi >>
fileVars == << fpopen, fpview, exists, file, disk >>
histVars == << initial, pre, resized, target, draw, preFlip, offs, lastDrain,
               drawn, grown >>
vars     == << cfgVars, drvVars, evoVars, fileVars, histVars >>

\* The bytes read_entropy(1) may return in the Driver's runs
EntropyBytes == {0, 255, 170, 92}

\* The number of read_entropy(1) calls that draining n bits from a pool
\* holding p makes: one for every 8 bits the pool lacks
BytesNeeded(p, n) == IF n <= Len(p) THEN 0 ELSE (n - Len(p) + 7) \div 8

\* The byte sequences the entropy source may return to those calls
EntropyFor(p, n) == [1..BytesNeeded(p, n) -> EntropyBytes]

\* The bits one magnitude draw drains
DrawBits(w, randomize) == IF randomize THEN w + w + 1 ELSE w

\* The generational_flips and random_whole_bit_count the evolver may be
\* constructed with (both asserted > 0 by __init__)
FlipBudgets == {1, 2}
InitialWidths == {1, 2}

\* The artifact the Driver may be started on
InitialContents == {<< >>, << 0 >>, << 165 >>, << 15, 240 >>}

NoDraw == [taken |-> FALSE, n |-> 0, raw |-> 0, width0 |-> 0, sign |-> 0,
           step |-> 0, clamped |-> FALSE]
NoDrain == [called |-> FALSE, n |-> 0, out |-> << >>, before |-> << >>,
            ent |-> << >>, left |-> << >>, ok |-> TRUE]

\* The state after RandomEvolver.__init__, DelegatingExitCodeTest.__init__
\* and Driver.__init__
Init ==
  /\ growth \in BOOLEAN
  /\ randomize_random_whole_bit_count \in BOOLEAN
  /\ generational_flips \in FlipBudgets
  /\ code \in ExpectedCodes
  /\ hasTimeout \in BOOLEAN
  /\ pc = "test" /\ gen = 0 /\ evals = 0
  /\ lastOutcome = "none" /\ lastResult = "none"
  /\ random_whole_bit_count \in InitialWidths
  /\ pool = << >>
  /\ size = 0 /\ flipi = 0
  /\ fpopen = FALSE /\ fpview = << >>
  /\ exists \in BOOLEAN
  /\ file \in InitialContents
  /\ exists = FALSE => file = << >>
  /\ disk = file
  /\ initial = [exists |-> exists, file |-> file]
  /\ pre = << >> /\ resized = FALSE /\ target = 0 /\ draw = NoDraw
  /\ preFlip = << >> /\ offs = << >> /\ lastDrain = NoDrain
  /\ drawn = << >> /\ grown = << >>

\* ---------------------------------------------------------------- Driver
\* while not self.test(): one evaluation of the oracle
Test ==
  /\ pc = "test"
  /\ \E outcome \in Outcomes, c \in ExitCodes :
       LET result == TestCall(outcome, c, code, hasTimeout)
       IN  /\ lastOutcome' = outcome
           /\ lastResult' = result
           /\ pc' = DriverAfterTest(result)
  /\ evals' = evals + 1
  /\ UNCHANGED << gen, cfgVars, evoVars, fileVars, histVars >>

\* --------------------------------------------------- RandomEvolver.__call__
\* fp = open(...); fp.seek(0, os.SEEK_END); size = fp.tell(); fp.seek(0, 0)
Open ==
  /\ pc = "open"
  /\ gen < MaxGen
  /\ gen' = gen + 1
  /\ exists' = TRUE
  /\ fpopen' = TRUE
  /\ fpview' = file
  /\ size' = SizeAtOpen(file)
  /\ flipi' = 0
  /\ pre' = file /\ resized' = FALSE /\ target' = 0 /\ draw' = NoDraw
  /\ preFlip' = file /\ offs' = << >>
  /\ drawn' = << >> /\ grown' = << >>
  /\ pc' = "resize"
  /\ UNCHANGED << evals, lastOutcome, lastResult, cfgVars,
                  random_whole_bit_count, pool, file, disk, initial, lastDrain >>

\* if self.growth and bool(*drain(1)): the branch not taken. Without
\* growth no bit is drained.
NoResize ==
  /\ pc = "resize"
  /\ \/ /\ ~growth
        /\ pool' = pool
     \/ /\ growth
        /\ \E ent \in EntropyFor(pool, 1) :
             \E b \in {RandomDrain(pool, ent, 1)} :
                /\ b.ok
                /\ b.out[1] = 0
                /\ pool' = b.pool
  /\ pc' = "flip"
  /\ UNCHANGED << gen, evals, lastOutcome, lastResult, cfgVars,
                  random_whole_bit_count, size, flipi, fileVars, histVars >>

\* if self.growth and bool(*drain(1)): target = size + _normal_random_whole(),
\* clamped at 0; seek to the end, grow, truncate, fdatasync; size = target
Resize ==
  /\ pc = "resize"
  /\ growth
  /\ \E ent \in EntropyFor(pool, 1 + DrawBits(random_whole_bit_count,
                                  randomize_random_whole_bit_count)) :
       \E b \in {RandomDrain(pool, ent, 1)} :
          /\ b.ok /\ b.out[1] # 0
          /\ \E m \in {normal_random_whole(b.pool, b.ent, random_whole_bit_count,
                                           randomize_random_whole_bit_count)} :
               \E t \in {ResizeTarget(size, m.n)}, end \in {SeekEnd(fpview)} :
                  /\ m.ok
                  /\ m.width <= MaxWidth /\ t <= MaxSize
                  /\ \E more \in EntropyFor(m.pool, 7 * (t - end)) :
                       \E g \in {GrowLoop(fpview, end, m.pool, more, t)} :
                          /\ g.ok
                          /\ pool' = g.pool
                          /\ grown' = SubSeq(g.content, end + 1, Len(g.content))
                          /\ \E c \in {Truncate(g.content, t)} :
                               /\ fpview' = c /\ file' = c
                               /\ disk' = fdatasync(c, disk)
                               /\ preFlip' = c
                  /\ random_whole_bit_count' = m.width
                  /\ size' = t
                  /\ target' = t
                  /\ draw' = [taken |-> TRUE, n |-> m.n, raw |-> m.raw,
                              width0 |-> random_whole_bit_count,
                              sign |-> m.sign, step |-> m.step,
                              clamped |-> m.clamped]
  /\ resized' = TRUE
  /\ pc' = "flip"
  /\ UNCHANGED << gen, evals, lastOutcome, lastResult, cfgVars, flipi,
                  fpopen, exists, initial, pre, offs, lastDrain, drawn >>

\* if not size: fp.close(); return
CloseEmpty ==
  /\ pc = "flip"
  /\ size = 0
  /\ fpopen' = FALSE
  /\ file' = fpview
  /\ pc' = "test"
  /\ UNCHANGED << gen, evals, lastOutcome, lastResult, cfgVars, evoVars,
                  fpview, exists, disk, histVars >>

\* One iteration of for i in range(self.generational_flips): the offset,
\* seek, read, xor, seek, write, fdatasync. The seek may or may not hand the
\* file object's buffered write to the kernel first; os.fdatasync makes
\* durable what the kernel holds. A read at or past the end returns nothing
\* and ord() of it raises: the exception leaves __call__ and the Driver.
Flip ==
  /\ pc = "flip"
  /\ size # 0
  /\ flipi \in range(generational_flips)
  /\ \E ent \in EntropyFor(pool, get_bit_count(size * 8)) :
       \E r \in {raw_random_whole(pool, ent, get_bit_count(size * 8))} :
          /\ r.ok
          /\ pool' = r.pool
          /\ drawn' = Append(drawn, r.bits)
          /\ \E fulli \in {FlipOffset(r.n, size)} :
               /\ offs' = Append(offs, fulli)
               /\ IF ReadAt(fpview, fulli \div 8) = << >>
                  THEN /\ pc' = "crashed"
                       /\ UNCHANGED << fpview, file, disk >>
                  ELSE /\ pc' = pc
                       /\ fpview' = FlipAt(fpview, fulli)
                       /\ \E k \in {fpview, file} :
                            /\ file' = k
                            /\ disk' = fdatasync(k, disk)
  /\ flipi' = flipi + 1
  /\ UNCHANGED << gen, evals, lastOutcome, lastResult, cfgVars,
                  random_whole_bit_count, size, fpopen, exists, initial, pre,
                  resized, target, draw, preFlip, lastDrain, grown >>

\* fp.close() after the flips
Close ==
  /\ pc = "flip"
  /\ size # 0
  /\ flipi \notin range(generational_flips)
  /\ fpopen' = FALSE
  /\ file' = fpview
  /\ pc' = "test"
  /\ UNCHANGED << gen, evals, lastOutcome, lastResult, cfgVars, evoVars,
                  fpview, exists, disk, histVars >>

Next == Test \/ Open \/ NoResize \/ Resize \/ CloseEmpty \/ Flip \/ Close

Spec == Init /\ [][Next]_vars

\* ------------------------------------------------ the bit pool on its own
\* The contents a RandomBitPool can hold: it is refilled only when empty, so
\* it holds what is left of one byte's bits
PoolContents ==
  {SubSeq(get_bits(b, 8), k + 1, 8) : b \in Byte, k \in 0..8}

\* Everything but the pool at rest
Idle ==
  /\ growth = FALSE /\ randomize_random_whole_bit_count = FALSE
  /\ generational_flips = 1 /\ code = 0 /\ hasTimeout = FALSE
  /\ gen = 0 /\ evals = 0 /\ lastOutcome = "none" /\ lastResult = "none"
  /\ random_whole_bit_count = 1 /\ size = 0 /\ flipi = 0
  /\ fpopen = FALSE /\ exists = FALSE /\ file = << >> /\ disk = << >>
  /\ initial = [exists |-> FALSE, file |-> << >>]
  /\ pre = << >> /\ resized = FALSE /\ target = 0 /\ draw = NoDraw

InitPool ==
  /\ Idle
  /\ pc = "pool"
  /\ pool \in PoolContents
  /\ fpview = << >> /\ preFlip = << >> /\ offs = << >>
  /\ lastDrain = NoDrain
  /\ drawn = << >> /\ grown = << >>

\* tuple(pool.drain(n)) on a RandomBitPool, run to its end
DrainCall ==
  /\ pc = "pool"
  /\ \E n \in 0..MaxDrain :
       \E ent \in EntropyFor(pool, n) :
          \E d \in {RandomDrain(pool, ent, n)} :
             /\ pool' = d.pool
             /\ lastDrain' = [called |-> TRUE, n |-> n, out |-> d.out,
                              before |-> pool, ent |-> ent, left |-> d.ent,
                              ok |-> d.ok]
  /\ UNCHANGED << cfgVars, drvVars, random_whole_bit_count, size, flipi,
                  fileVars, initial, pre, resized, target, draw, preFlip,
                  offs, drawn, grown >>

NextPool == DrainCall

SpecPool == InitPool /\ [][NextPool]_vars

\* ------------------------------------------------- the flip on its own
\* The contents a flip is applied to: every one-byte artifact, and some
\* two-byte ones
FlipContents ==
  {<< b >> : b \in Byte} \cup {<< a, b >> : a \in {0, 165, 255}, b \in {0, 60, 255}}

InitFlip ==
  /\ Idle
  /\ pc = "flip0"
  /\ pool = << >>
  /\ fpview \in FlipContents
  /\ preFlip = fpview /\ offs = << >>
  /\ lastDrain = NoDrain
  /\ drawn = << >> /\ grown = << >>

\* The seek, read, xor, seek, write of one flip, at any offset in [0, S*8)
FlipOnce ==
  /\ pc = "flip0"
  /\ \E fulli \in 0..(Len(fpview) * 8 - 1) :
       /\ fpview' = FlipAt(fpview, fulli)
       /\ offs' = << fulli >>
  /\ pc' = "flip1"
  /\ UNCHANGED << cfgVars, gen, evals, lastOutcome, lastResult, evoVars,
                  fpopen, exists, file, disk, initial, pre, resized, target,
                  draw, preFlip, lastDrain, drawn, grown >>

\* The same flip again, at the same offset
FlipAgain ==
  /\ pc = "flip1"
  /\ fpview' = FlipAt(fpview, offs[1])
  /\ offs' = Append(offs, offs[1])
  /\ pc' = "flip2"
  /\ UNCHANGED << cfgVars, gen, evals, lastOutcome, lastResult, evoVars,
                  fpopen, exists, file, disk, initial, pre, resized, target,
                  draw, preFlip, lastDrain, drawn, grown >>

NextFlip == FlipOnce \/ FlipAgain

SpecFlip == InitFlip /\ [][NextFlip]_vars

\* ------------------------------------------------------------ properties
Min(a, b) == IF a <= b THEN a ELSE b
Max(a, b) == IF a >= b THEN a ELSE b

\* Bit k (0 = least significant) of x
BitAt(x, k) == (x \div (2 ^ k)) % 2

\* The 8 bits of a byte, bit 7 first
MSBFirst(b) == [i \in 1..8 |-> BitAt(b, 8 - i)]

\* The bits of a sequence of bytes, each byte's bit 7 first, in order
RECURSIVE BitsOf(_)
BitsOf(bytes) ==
  IF bytes = << >> THEN << >> ELSE MSBFirst(Head(bytes)) \o BitsOf(Tail(bytes))

\* The (byte, bit) positions at which two contents of one length differ
DiffBits(a, b) ==
  {q \in (1..Len(a)) \X (0..7) : BitAt(a[q[1]], q[2]) # BitAt(b[q[1]], q[2])}

\* C1: a drain of n bits, n >= 0, from any pool content yields exactly n
\* values, each 0 or 1, reading the entropy source when the pool runs empty
\* and using up every byte it read.
C1_DrainYieldsExactlyN ==
  lastDrain.called =>
    /\ lastDrain.ok
    /\ Len(lastDrain.out) = lastDrain.n
    /\ \A i \in 1..Len(lastDrain.out) : lastDrain.out[i] \in Bit
    /\ lastDrain.left = << >>

\* A drain that found the pool short, read two bytes to go on, and delivered n.
C1_Witness ==
  /\ lastDrain.called
  /\ lastDrain.n = 10
  /\ Len(lastDrain.before) = 1
  /\ Len(lastDrain.ent) = 2
  /\ Len(lastDrain.out) = 10

\* C2: the bits a drain delivers and leaves in the pool are, in order, the
\* bits the pool held followed by the 8 bits of each entropy byte read, bit 7
\* first down to bit 0.
C2_StreamIsMSBFirstBytes ==
  lastDrain.called =>
    lastDrain.before \o BitsOf(lastDrain.ent) = lastDrain.out \o pool

\* C3: the bit count is at least 1 in every state, and is exactly 1 after a
\* draw whose step would have made it <= 0.
C3_BitCountPositive ==
  /\ random_whole_bit_count >= 1
  /\ (draw.taken /\ draw.clamped) => random_whole_bit_count = 1

\* A draw whose step took the bit count to 0 or below.
C3_Witness ==
  /\ draw.taken /\ draw.clamped
  /\ draw.width0 + draw.step <= 0
  /\ random_whole_bit_count = 1

\* C4: when the first evaluation passes, the Driver is done with no
\* generation applied, the artifact never opened and left as it was.
C4_PassFirstMeansNoGeneration ==
  (evals = 1 /\ lastResult = "True") =>
    /\ pc = "done"
    /\ gen = 0
    /\ ~fpopen
    /\ exists = initial.exists
    /\ file = initial.file

\* The Driver done after a single, passing evaluation of an existing artifact.
C4_Witness ==
  /\ evals = 1 /\ lastResult = "True" /\ pc = "done"
  /\ initial.exists /\ Len(initial.file) = 2

\* C5: with a timeout configured, an evaluation whose process overruns it
\* results in fail, and the Driver goes on to the next generation.
C5_OverrunIsFail ==
  (hasTimeout /\ lastOutcome = "overrun") =>
    /\ lastResult = "False"
    /\ pc \in {"open", "resize", "flip", "test"}

\* C6: an evaluation whose process cannot be launched results in fail
\* without raising, and the Driver applies the next generation: the k-th
\* evaluation is followed by the k-th generation.
C6_LaunchErrorIsFail ==
  lastOutcome = "launch_error" =>
    /\ lastResult = "False"
    /\ \/ pc = "open" /\ gen = evals - 1
       \/ pc \in {"resize", "flip", "test"} /\ gen = evals

\* A generation under way after an evaluation that could not launch.
C6_Witness ==
  /\ lastOutcome = "launch_error"
  /\ pc = "flip" /\ gen = 2 /\ evals = 2

\* C7: with no resize taken and a flip budget of 1, a generation of an
\* artifact of size >= 1 keeps the size and changes exactly one bit of
\* exactly one byte; the one-byte artifact 0x00 becomes a power of two.
C7_OneFlipChangesOneBit ==
  (~fpopen /\ gen >= 1 /\ ~resized /\ generational_flips = 1 /\ Len(pre) >= 1) =>
    /\ Len(file) = Len(pre)
    /\ Cardinality(DiffBits(pre, file)) = 1
    /\ pre = << 0 >> => file[1] \in {1, 2, 4, 8, 16, 32, 64, 128}

\* The one-byte artifact 0x00 after one generation of one flip.
C7_Witness ==
  /\ ~fpopen /\ gen = 1 /\ ~resized /\ generational_flips = 1
  /\ pre = << 0 >> /\ file = << 32 >>

\* C8: a flip applied twice at one offset restores the content, for every
\* content and every offset in [0, S*8).
C8_FlipTwiceRestores ==
  pc = "flip2" => fpview = preFlip

\* Bit 5 of the second byte of 0xA5 0x3C flipped and flipped back.
C8_Witness ==
  /\ pc = "flip2"
  /\ preFlip = << 165, 60 >> /\ offs = << 13, 13 >> /\ fpview = preFlip

\* C9: right after a resize from size S to target, the artifact has size
\* target and its first min(S, target) bytes are what they were, in the file
\* object, in the kernel and on durable storage.
C9_ResizeKeepsRetainedBytes ==
  (fpopen /\ resized /\ offs = << >>) =>
    /\ Len(fpview) = target
    /\ \A i \in 1..Min(Len(pre), target) : fpview[i] = pre[i]
    /\ file = fpview /\ disk = fpview

\* A resize that grew a non-empty artifact.
C9_Witness ==
  /\ fpopen /\ resized /\ offs = << >>
  /\ Len(pre) >= 1 /\ target > Len(pre)
  /\ SubSeq(fpview, 1, Len(pre)) = pre

\* C10: the resize delta is the magnitude with a sign taken from an entropy
\* bit, and target = max(0, S + delta): a resize whose sign bit is set and
\* whose magnitude is >= 1 takes an artifact of size S >= 1 below S.
C10_SignedDeltaShrinks ==
  (resized /\ Len(pre) >= 1 /\ draw.sign = 1 /\ draw.n >= 1) =>
    /\ target = Max(0, Len(pre) - draw.n)
    /\ target < Len(pre)

\* What the code does instead: a resize never takes the size below S.
ResizeNeverShrinks ==
  resized => target = Len(pre) + draw.n /\ draw.n >= 0

\* C11: once a flip step has ended (its write and its os.fdatasync done),
\* and still when the generation has returned, durable storage holds the
\* content with that flip's byte written: what os.fdatasync last made
\* durable is what the file object shows.
C11_FlipWriteIsDurable ==
  (gen >= 1 /\ offs # << >>) => disk = fpview

\* What the code does instead: the data-sync of a flip makes durable the
\* content as it was before that flip, or older.
FlipSyncLagsTheWrite ==
  (fpopen /\ offs # << >>) =>
    \E k \in 0..(Len(offs) - 1) :
       LET Replay[i \in 0..k] ==
             IF i = 0 THEN preFlip ELSE FlipAt(Replay[i - 1], offs[i])
       IN  disk = Replay[k]

\* C12: evaluation and generation strictly alternate. An evaluation starts
\* only with the artifact closed and as many evaluations made as generations
\* applied; a generation is under way only after a fail result, as the one
\* generation that follows that evaluation; the Driver is done only after a
\* pass result, with the artifact closed.
C12_EvaluationAndGenerationAlternate ==
  /\ pc = "test" => ~fpopen /\ evals = gen
  /\ pc = "open" => ~fpopen /\ lastResult = "False" /\ evals = gen + 1
  /\ pc \in {"resize", "flip"} => fpopen /\ lastResult = "False" /\ evals = gen
  /\ pc = "done" => ~fpopen /\ lastResult = "True" /\ evals = gen + 1
  /\ fpopen => pc \in {"resize", "flip"}

\* The Driver done at its third evaluation, after two generations that each
\* followed a fail result and flipped bits.
C12_Witness ==
  /\ pc = "done" /\ lastResult = "True"
  /\ gen = 2 /\ evals = 3
  /\ ~fpopen /\ offs # << >>

\* C13: once the resize step of a generation is over with size 0, whether
\* the artifact was empty, was absent and has been created, or was resized
\* to 0, the generation flips nothing: no offset is drawn, no bit is drained
\* for one, and the artifact is empty in the file object and in the kernel,
\* up to the return and after it.
C13_EmptyMeansNoFlip ==
  (gen >= 1 /\ pc # "resize" /\ size = 0) =>
    /\ offs = << >> /\ drawn = << >> /\ flipi = 0
    /\ fpview = << >> /\ file = << >>
    /\ pc \in {"flip", "test", "open", "done", "crashed", "blocked"}

\* The artifact was absent; the first generation created it empty, and the
\* second resized it to 0 and returned.
C13_Witness ==
  /\ pc = "test" /\ gen = 2 /\ ~fpopen
  /\ ~initial.exists /\ exists
  /\ resized /\ target = 0 /\ size = 0
  /\ file = << >> /\ offs = << >>

\* The content with the bit at offset o (bit o mod 8 of byte o div 8) toggled
Toggled(content, o) ==
  [content EXCEPT ![o \div 8 + 1] =
     IF BitAt(@, o % 8) = 1 THEN @ - 2 ^ (o % 8) ELSE @ + 2 ^ (o % 8)]

\* The content c after the first n of the flips in offs, one bit toggled per
\* flip
RECURSIVE AfterFlips(_, _)
AfterFlips(c, n) ==
  IF n = 0 THEN c ELSE Toggled(AfterFlips(c, n - 1), offs[n])

\* C14: with a size >= 1 after the resize step, a generation in progress
\* has made as many flip steps as its loop counter says, never more than
\* generational_flips, and a generation that has returned has made exactly
\* generational_flips of them; each step toggled one bit of one byte and
\* nothing else, so the artifact is what it was before the first flip with
\* one bit toggled per flip, in the order of the flips, and the size is kept.
C14_ExactlyBudgetFlips ==
  (gen >= 1 /\ pc # "resize" /\ size >= 1) =>
    /\ Len(offs) = flipi /\ flipi <= generational_flips
    /\ ~fpopen => Len(offs) = generational_flips
    /\ Len(fpview) = Len(preFlip)
    /\ fpview = AfterFlips(preFlip, Len(offs))
    /\ ~fpopen => file = fpview

\* A generation of two flips, at different bits, that has returned.
C14_Witness ==
  /\ pc = "test" /\ gen = 1 /\ ~fpopen
  /\ generational_flips = 2 /\ size = 2
  /\ Len(offs) = 2 /\ offs[1] # offs[2]
  /\ Cardinality(DiffBits(preFlip, file)) = 2

\* C15: in a generation that resized, from the end of the resize step on,
\* the program's size is the target and the file object, the kernel and
\* durable storage all hold a content of that size; as long as no flip has
\* been made the three hold the same resized content, which is the content
\* the first flip reads; and every flip drew the bits for its offset from
\* the target size and took an offset below target * 8.
C15_ResizeSyncedBeforeFlips ==
  (resized /\ pc # "resize") =>
    /\ size = target
    /\ Len(preFlip) = target /\ Len(fpview) = target
    /\ Len(file) = target /\ Len(disk) = target
    /\ SubSeq(preFlip, Len(pre) + 1, target) = grown
    /\ offs = << >> => (fpview = preFlip /\ file = preFlip /\ disk = preFlip)
    /\ Len(drawn) = Len(offs)
    /\ \A i \in 1..Len(offs) :
         /\ Len(drawn[i]) = get_bit_count(target * 8)
         /\ offs[i] \in 0..(target * 8 - 1)

\* A resize that grew a non-empty artifact, followed by a flip in the
\* appended part.
C15_Witness ==
  /\ resized /\ pc = "flip" /\ fpopen
  /\ Len(pre) >= 1 /\ target > Len(pre)
  /\ Len(offs) >= 1 /\ offs[1] >= Len(pre) * 8
  /\ Len(disk) = target

\* C16: the magnitude a draw returns is its raw value compressed by the bit
\* count the raw value was drawn with: ceil of the severe logarithm when that
\* bit count was >= 2, the raw value itself when it was 1, whatever bit count
\* the draw has left.
C16_CompressedByWidthDrawnWith ==
  draw.taken =>
    draw.n = IF draw.width0 >= 2 THEN CeilSevereLog(draw.raw) ELSE draw.raw

\* What the code does instead: the raw value is compressed by the bit count
\* the draw has left for the next one.
CompressedByWidthLeft ==
  (draw.taken /\ pc = "flip" /\ offs = << >>) =>
    draw.n = IF random_whole_bit_count >= 2 THEN CeilSevereLog(draw.raw)
             ELSE draw.raw

\* l = ceil(log2(n)), for n >= 1: 2^(l-1) < n <= 2^l
IsCeilLog2(l, n) == n <= 2 ^ l /\ (l = 0 \/ 2 ^ (l - 1) < n)

\* l = floor(log2(n)) + 1, for n >= 1: 2^(l-1) <= n < 2^l
IsFloorLog2Plus1(l, n) == l >= 1 /\ 2 ^ (l - 1) <= n /\ n < 2 ^ l

\* The unsigned integer a sequence of bits spells, first bit most significant
RECURSIVE BitsValueUpTo(_, _)
BitsValueUpTo(bits, n) ==
  IF n = 0 THEN 0 ELSE 2 * BitsValueUpTo(bits, n - 1) + bits[n]

BitsValue(bits) == BitsValueUpTo(bits, Len(bits))

\* C17 as stated: every flip of an artifact of size S >= 1 drained exactly
\* ceil(log2(S * 8)) bits for its offset, and its offset is the unsigned
\* integer they spell modulo S * 8.
C17_DrawsCeilLog2Bits ==
  (gen >= 1 /\ pc # "resize" /\ size >= 1) =>
    \A i \in 1..Len(offs) :
       /\ IsCeilLog2(Len(drawn[i]), size * 8)
       /\ offs[i] = BitsValue(drawn[i]) % (size * 8)

\* C17 amended: every flip of an artifact of size S >= 1 drained exactly
\* floor(log2(S * 8)) + 1 bits for its offset (the bits needed to store
\* S * 8 itself: one more than ceil(log2(S * 8)) when S * 8 is a power of
\* two), and its offset is the unsigned integer they spell modulo S * 8.
C17_DrawsBitLengthBits ==
  (gen >= 1 /\ pc # "resize" /\ size >= 1) =>
    /\ Len(drawn) = Len(offs)
    /\ \A i \in 1..Len(offs) :
         /\ IsFloorLog2Plus1(Len(drawn[i]), size * 8)
         /\ offs[i] = BitsValue(drawn[i]) % (size * 8)

\* A flip of a two-byte artifact that drained five bits, spelling 16 or
\* more, and took the offset modulo 16.
C17_Witness ==
  /\ pc = "flip" /\ size = 2 /\ Len(offs) >= 1
  /\ Len(drawn[1]) = 5 /\ BitsValue(drawn[1]) >= 16
  /\ offs[1] = BitsValue(drawn[1]) - 16

\* C18: every flip offset of a generation is in [0, size * 8) for the size
\* the resize step has left, its byte index (offset div 8) is below that
\* size and inside the content the flip reads, and its bit index (offset mod
\* 8) is in 0..7; no flip has read at or past the end of the artifact, so no
\* generation has been left by the exception such a read ends in.
C18_OffsetsInsideArtifact ==
  /\ (gen >= 1 /\ pc # "resize") =>
       \A i \in 1..Len(offs) :
          /\ offs[i] \in 0..(size * 8 - 1)
          /\ offs[i] \div 8 \in 0..(size - 1)
          /\ offs[i] \div 8 < Len(fpview)
          /\ offs[i] % 8 \in 0..7
          /\ ReadAt(preFlip, offs[i] \div 8) # << >>
  /\ pc = "flip" => Len(fpview) = size
  /\ pc = "crashed" => ~fpopen

\* A flip of the top bit of the last byte of an artifact that has just grown.
C18_Witness ==
  /\ pc = "flip" /\ resized /\ target > Len(pre) /\ size = target
  /\ Len(offs) >= 1 /\ offs[Len(offs)] = size * 8 - 1
  /\ fpview[size] >= 128

\* C19: with growth disabled, in every state, whatever the number of
\* generations applied, no resize has been taken and the artifact has its
\* initial size in the file object, in the kernel and on durable storage;
\* and an artifact that was empty or absent at the start is empty, no flip
\* has been applied to it and no entropy bit has been drained.
C19_NoGrowthKeepsSize ==
  ~growth =>
    /\ ~resized /\ ~draw.taken /\ grown = << >>
    /\ Len(file) = Len(initial.file) /\ Len(disk) = Len(initial.file)
    /\ fpopen => Len(fpview) = Len(initial.file)
    /\ gen >= 1 => size = Len(initial.file)
    /\ initial.file = << >> =>
         /\ file = << >> /\ offs = << >> /\ drawn = << >> /\ flipi = 0
         /\ pool = << >>

\* Two generations without growth have changed a two-byte artifact and kept
\* its size.
C19_Witness ==
  /\ ~growth /\ pc = "test" /\ gen = 2 /\ ~fpopen
  /\ Len(initial.file) = 2 /\ Len(file) = 2
  /\ file # initial.file

\* C20: the bytes a resize has appended with its grow loop are exactly
\* target - S in number, S being the size at open, each has a value in
\* 0..127 (7 bits, the most significant bit clear), and right after the
\* resize they are the artifact's bytes S+1 .. target.
C20_GrownBytesAreSevenBit ==
  resized =>
    /\ Len(grown) = target - Len(pre)
    /\ \A i \in 1..Len(grown) : grown[i] \in 0..127 /\ BitAt(grown[i], 7) = 0
    /\ (pc = "flip" /\ offs = << >>) =>
         \A i \in 1..Len(grown) : fpview[Len(pre) + i] = grown[i]

\* A resize that appended one byte, with all seven bits set, to a non-empty
\* artifact.
C20_Witness ==
  /\ resized /\ pc = "flip" /\ offs = << >>
  /\ Len(pre) >= 1 /\ target = Len(pre) + 1
  /\ grown = << 127 >> /\ fpview = pre \o grown

====
